---- MODULE Spec2Model ----
(***************************************************************************)
(* Model of awsdet/utils/runner/dist_utils.py: the distributed-training    *)
(* helpers init_dist, get_dist_info, master_only, broadcast_weights,       *)
(* get_distributed_tape and get_barrier, run by the processes of one job.  *)
(* A process is identified with its global rank.                           *)
(***************************************************************************)
EXTENDS Integers, Sequences, FiniteSets, TLC

\* Largest job (number of processes) explored.
MaxSize == 2
\* Largest number of accelerators on a machine of the job.
MaxGpus == 2
\* Number of helper calls the driver makes over the whole job.
MaxSteps == 3

VARIABLES
    hr,             \* hr[p]: what the distributed runtime reports to process p
    gpus,           \* number of physical GPUs on every machine of the job
    tf,             \* tf[p]: device configuration of process p and the calls that made it
    runner,         \* runner[p]: rank, model variables, optimizer variables (fresh: 0)
    stdout,         \* stdout[p]: lines printed by process p
    mock,           \* mock[p]: calls of the master_only wrapper and of the wrapped function
    entered,        \* entered[p]: oob_allreduce calls process p has begun
    returned,       \* returned[p]: oob_allreduce calls process p has returned from
    frame,          \* frame[p]: "idle", or where p blocks: "get_barrier" / "wrapper"
    ret,            \* ret[p]: outcome of the last helper call that ended on p
    steps,          \* helper calls begun so far in the job
    barrier_only_in_master  \* the driver reaches get_barrier only inside a master_only function

vars == <<hr, gpus, tf, runner, stdout, mock, entered, returned, frame, ret,
          steps, barrier_only_in_master>>

Ranks == DOMAIN hr

\* Python's None, and a call that ended without raising.
None == <<>>
NoExc == "none"

Return(op, value) == [op |-> op, value |-> value, exc |-> NoExc]
Raise(op, exc) == [op |-> op, value |-> None, exc |-> exc]

\* The arguments a wrapped function is called with: (*args, **kwargs).
ArgSets == { [args |-> <<>>, kwargs |-> {}],
             [args |-> <<1>>, kwargs |-> {}],
             [args |-> <<1>>, kwargs |-> {"k"}] }

\* The functions the driver wraps: one that returns a value computed from its
\* arguments, one that raises, and one that reaches get_barrier.
Funcs == {"returns", "raises", "get_barrier"}

----------------------------------------------------------------------------
(* init_dist *)

\* tf.config.experimental.list_physical_devices('GPU'): the list of devices.
list_physical_devices(p) == [i \in 1..gpus |-> i - 1]

\* The configuration of a process that has configured nothing: every physical
\* device visible, memory growth off.
DefaultConfig(p) ==
    [memory_growth |-> {}, visible_devices |-> {i - 1 : i \in 1..gpus},
     n_set_memory_growth |-> 0, n_set_visible_devices |-> 0]

\* for gpu in gpus: set_memory_growth(gpu, True)
set_memory_growth_all(cfg, devs) ==
    [cfg EXCEPT !.memory_growth = @ \cup {devs[i] : i \in 1..Len(devs)},
                !.n_set_memory_growth = @ + Len(devs)]

\* if gpus:  (variant has_gpus_always: the guard left out)
has_gpus_always(devs) == TRUE
has_gpus(devs) == devs # <<>>

\* The index of gpus[hr.local_rank()].  (variant device_index_rank: hr.rank())
device_index_rank(p) == hr[p].rank
device_index(p) == hr[p].local_rank

\* Python list indexing gpus[i] for i >= 0: the element, or IndexError.
getitem(devs, i) ==
    IF i < Len(devs)
    THEN [exc |-> NoExc, value |-> <<devs[i + 1]>>]
    ELSE [exc |-> "IndexError", value |-> None]

\* tf.config.experimental.set_visible_devices(dev, 'GPU')
set_visible_devices(cfg, dev) ==
    [cfg EXCEPT !.visible_devices = {dev}, !.n_set_visible_devices = @ + 1]

\* The configuration and outcome of init_dist on process p.
\* (variant init_dist_visible_first: the device selected before the growth loop)
init_dist_visible_first(p) ==
    LET devs == list_physical_devices(p)
        got == getitem(devs, device_index(p))
    IN  IF ~has_gpus(devs)
        THEN [tf |-> tf[p], ret |-> Return("init_dist", None)]
        ELSE IF got.exc # NoExc
        THEN [tf |-> tf[p], ret |-> Raise("init_dist", got.exc)]
        ELSE [tf |-> set_memory_growth_all(set_visible_devices(tf[p], got.value[1]), devs),
              ret |-> Return("init_dist", None)]
init_dist_result(p) ==
    LET devs == list_physical_devices(p)
        grown == set_memory_growth_all(tf[p], devs)
        got == getitem(devs, device_index(p))
    IN  IF ~has_gpus(devs)
        THEN [tf |-> grown, ret |-> Return("init_dist", None)]
        ELSE IF got.exc # NoExc
        THEN [tf |-> grown, ret |-> Raise("init_dist", got.exc)]
        ELSE [tf |-> set_visible_devices(grown, got.value[1]),
              ret |-> Return("init_dist", None)]

init_dist(p) ==
    /\ p \in Ranks
    /\ frame[p] = "idle"
    /\ steps < MaxSteps
    /\ steps' = steps + 1
    /\ tf' = [tf EXCEPT ![p] = init_dist_result(p).tf]
    /\ ret' = [ret EXCEPT ![p] = init_dist_result(p).ret]
    /\ UNCHANGED <<hr, gpus, runner, stdout, mock, entered, returned, frame,
                   barrier_only_in_master>>

----------------------------------------------------------------------------
(* get_dist_info *)

\* return hr.rank(), hr.local_rank(), hr.size(), hr.local_size()
\* (variant get_dist_info_swapped: local values first)
get_dist_info_swapped(p) ==
    <<hr[p].local_rank, hr[p].rank, hr[p].local_size, hr[p].size>>
get_dist_info_result(p) ==
    <<hr[p].rank, hr[p].local_rank, hr[p].size, hr[p].local_size>>

get_dist_info(p) ==
    /\ p \in Ranks
    /\ frame[p] = "idle"
    /\ steps < MaxSteps
    /\ steps' = steps + 1
    /\ ret' = [ret EXCEPT ![p] = Return("get_dist_info", get_dist_info_result(p))]
    /\ UNCHANGED <<hr, gpus, tf, runner, stdout, mock, entered, returned, frame,
                   barrier_only_in_master>>

----------------------------------------------------------------------------
(* get_distributed_tape *)

\* hr.DistributedGradientTape(tape): the tape, marked as wrapped.
DistributedGradientTape(tape) == <<tape, 1>>

get_distributed_tape(p) ==
    /\ p \in Ranks
    /\ frame[p] = "idle"
    /\ steps < MaxSteps
    /\ steps' = steps + 1
    /\ ret' = [ret EXCEPT ![p] =
                 Return("get_distributed_tape", DistributedGradientTape(0))]
    /\ UNCHANGED <<hr, gpus, tf, runner, stdout, mock, entered, returned, frame,
                   barrier_only_in_master>>

----------------------------------------------------------------------------
(* broadcast_weights *)

\* print('Rank {} broadcasting'.format(runner.rank)); print('Variable broadcast done.')
\* A line is the rank it names, or -1 for the line that names none.
broadcast_log(p) == <<runner[p].rank, -1>>

\* The runner's variables after the call; both hr.broadcast_variables calls are
\* commented out.  (variant broadcast_variables_root0: the calls in effect)
broadcast_variables_root0(p) ==
    [runner[p] EXCEPT !.model = runner[0].model, !.optimizer = runner[0].optimizer]
broadcast_variables(p) == runner[p]

broadcast_weights(p) ==
    /\ p \in Ranks
    /\ frame[p] = "idle"
    /\ steps < MaxSteps
    /\ steps' = steps + 1
    /\ stdout' = [stdout EXCEPT ![p] = @ \o broadcast_log(p)]
    /\ runner' = [runner EXCEPT ![p] = broadcast_variables(p)]
    /\ ret' = [ret EXCEPT ![p] = Return("broadcast_weights", None)]
    /\ UNCHANGED <<hr, gpus, tf, mock, entered, returned, frame,
                   barrier_only_in_master>>

----------------------------------------------------------------------------
(* get_barrier *)

\* tf.constant(0, dtype=tf.float32): what every process contributes.
barrier_tensor == 0

\* hr.oob_allreduce: the k-th all-reduce of a process combines the k-th
\* contribution of every process of the job, so its result exists once every
\* process has begun its k-th call.
oob_allreduce_done(p) == \A q \in Ranks : entered[q] >= entered[p]
oob_allreduce_value(p) == Cardinality(Ranks) * barrier_tensor

\* The call begins: the process contributes and blocks in the collective.
\* (variant begin_local: the value reduced locally, no collective)
begin_local(p, fr) ==
    /\ entered' = [entered EXCEPT ![p] = @ + 1]
    /\ returned' = [returned EXCEPT ![p] = @ + 1]
    /\ frame' = frame
    /\ ret' = [ret EXCEPT ![p] = Return("get_barrier", <<barrier_tensor>>)]
begin_allreduce(p, fr) ==
    /\ entered' = [entered EXCEPT ![p] = @ + 1]
    /\ frame' = [frame EXCEPT ![p] = fr]
    /\ UNCHANGED <<returned, ret>>

get_barrier(p) ==
    /\ p \in Ranks
    /\ frame[p] = "idle"
    /\ ~barrier_only_in_master
    /\ steps < MaxSteps
    /\ steps' = steps + 1
    /\ begin_allreduce(p, "get_barrier")
    /\ UNCHANGED <<hr, gpus, tf, runner, stdout, mock, barrier_only_in_master>>

\* The collective completes and get_barrier (and a wrapper around it) returns
\* its result.
get_barrier_return(p) ==
    /\ p \in Ranks
    /\ frame[p] # "idle"
    /\ oob_allreduce_done(p)
    /\ returned' = [returned EXCEPT ![p] = @ + 1]
    /\ frame' = [frame EXCEPT ![p] = "idle"]
    /\ ret' = [ret EXCEPT ![p] =
                 Return(IF frame[p] = "wrapper" THEN "master_only" ELSE "get_barrier",
                        <<oob_allreduce_value(p)>>)]
    /\ UNCHANGED <<hr, gpus, tf, runner, stdout, mock, entered, steps,
                   barrier_only_in_master>>

----------------------------------------------------------------------------
(* master_only *)

\* if rank == 0, with rank the first component of get_dist_info().
\* (variants: the local rank tested, the test inverted, the test left out)
is_master_local(p) == get_dist_info_result(p)[2] = 0
is_master_inverted(p) == get_dist_info_result(p)[1] # 0
is_master_always(p) == TRUE
is_master(p) == get_dist_info_result(p)[1] = 0

\* What a wrapped function that returns computes from its arguments.
func_value(a) == <<10 + Len(a.args) + Cardinality(a.kwargs)>>

\* wrapper(*args, **kwargs) of master_only(func) on process p.
master_only(p, func, a) ==
    /\ p \in Ranks
    /\ frame[p] = "idle"
    /\ steps < MaxSteps
    /\ steps' = steps + 1
    /\ IF is_master(p)
       THEN /\ mock' = [mock EXCEPT ![p].wrapper_calls = @ + 1,
                                    ![p].func_calls = @ + 1]
            /\ CASE func = "returns" ->
                      /\ ret' = [ret EXCEPT ![p] = Return("master_only", func_value(a))]
                      /\ UNCHANGED <<entered, returned, frame>>
                 [] func = "raises" ->
                      /\ ret' = [ret EXCEPT ![p] = Raise("master_only", "FuncError")]
                      /\ UNCHANGED <<entered, returned, frame>>
                 [] func = "get_barrier" ->
                      begin_allreduce(p, "wrapper")
       ELSE /\ mock' = [mock EXCEPT ![p].wrapper_calls = @ + 1]
            /\ ret' = [ret EXCEPT ![p] = Return("master_only", None)]
            /\ UNCHANGED <<entered, returned, frame>>
    /\ UNCHANGED <<hr, gpus, tf, runner, stdout, barrier_only_in_master>>

----------------------------------------------------------------------------
(* The job *)

\* local_size processes per machine, machines filled in rank order.
RuntimeOf(size, local_size) ==
    [p \in 0..(size - 1) |->
        [rank |-> p, local_rank |-> p % local_size,
         size |-> size, local_size |-> local_size]]

\* How the model of each process was initialised: every process from one shared
\* seed, or each from a seed of its own.
SeedPolicies == {"shared", "per_rank"}
ModelOf(seed, p) == IF seed = "shared" THEN 0 ELSE p

Init ==
    /\ \E size \in 1..MaxSize :
         \E local_size \in {l \in 1..size : size % l = 0} :
            hr = RuntimeOf(size, local_size)
    /\ gpus \in 0..MaxGpus
    /\ tf = [p \in Ranks |-> DefaultConfig(p)]
    /\ \E seed \in SeedPolicies :
         runner = [p \in Ranks |-> [rank |-> p, model |-> ModelOf(seed, p),
                                     optimizer |-> 0]]
    /\ stdout = [p \in Ranks |-> <<>>]
    /\ mock = [p \in Ranks |-> [wrapper_calls |-> 0, func_calls |-> 0]]
    /\ entered = [p \in Ranks |-> 0]
    /\ returned = [p \in Ranks |-> 0]
    /\ frame = [p \in Ranks |-> "idle"]
    /\ ret = [p \in Ranks |-> Return("none", None)]
    /\ steps = 0
    /\ barrier_only_in_master \in BOOLEAN

Next ==
    \E p \in 0..(MaxSize - 1) :
        \/ init_dist(p)
        \/ get_dist_info(p)
        \/ get_distributed_tape(p)
        \/ broadcast_weights(p)
        \/ get_barrier(p)
        \/ get_barrier_return(p)
        \/ \E func \in Funcs, a \in ArgSets : master_only(p, func, a)

Spec == Init /\ [][Next]_vars

\* The runtime completes a collective every process has joined.
FairSpec == Spec /\ \A p \in 0..(MaxSize - 1) : WF_vars(get_barrier_return(p))

----------------------------------------------------------------------------
(* Properties *)

Blocked(p) == IF p \in Ranks THEN frame[p] # "idle" ELSE FALSE
Multi == Cardinality(Ranks) > 1
AllGpus == {i - 1 : i \in 1..gpus}

\* C1: every call of a master_only wrapper invokes the wrapped function exactly
\* once on the process of global rank 0 and never on any other process, so on
\* rank 0 the function has run as often as the wrapper and elsewhere not at all.
C1_InvokedOnceOnMasterOnly ==
    \A p \in Ranks :
        mock[p].func_calls = IF hr[p].rank = 0 THEN mock[p].wrapper_calls ELSE 0

C1_Witness ==
    \E p, q \in Ranks :
        /\ hr[p].rank = 0 /\ mock[p].wrapper_calls >= 1
        /\ hr[q].rank # 0 /\ mock[q].wrapper_calls >= 1

\* C2: on a process whose global rank is not 0 a wrapper call never blocks and
\* ends with the result None and no exception, whatever the wrapped function is.
C2_NonMasterReturnsNone ==
    \A p \in Ranks :
        hr[p].rank # 0 =>
            /\ frame[p] # "wrapper"
            /\ ret[p].op = "master_only" =>
                   (ret[p].value = None /\ ret[p].exc = NoExc)

C2_Witness ==
    \E p \in Ranks :
        hr[p].rank # 0 /\ ret[p].op = "master_only" /\ mock[p].wrapper_calls >= 1

\* C3: the result of get_dist_info is the 4-tuple (global rank, local rank,
\* global size, local size) of the values the runtime reports to the caller.
C3_DistInfoOrder ==
    \A p \in Ranks :
        ret[p].op = "get_dist_info" =>
            /\ Len(ret[p].value) = 4
            /\ ret[p].value[1] = hr[p].rank
            /\ ret[p].value[2] = hr[p].local_rank
            /\ ret[p].value[3] = hr[p].size
            /\ ret[p].value[4] = hr[p].local_size

C3_Witness ==
    \E p \in Ranks :
        /\ ret[p].op = "get_dist_info"
        /\ hr[p].rank # hr[p].local_rank
        /\ hr[p].size # hr[p].local_size

\* C4: with no accelerator enumerated init_dist ends without error, having made
\* no set_visible_devices and no set_memory_growth call, and the device
\* configuration is the one the process started with.
C4_NoGpusNoConfiguration ==
    \A p \in Ranks :
        (gpus = 0 /\ ret[p].op = "init_dist") =>
            /\ ret[p].exc = NoExc
            /\ ret[p].value = None
            /\ tf[p] = DefaultConfig(p)

C4_Witness ==
    \E p \in Ranks : gpus = 0 /\ ret[p].op = "init_dist"

\* C5 as claimed: whenever init_dist has run with at least one accelerator
\* enumerated, memory growth is on for every enumerated accelerator and the
\* visible devices are exactly the accelerator at index local_rank.
C5_Claimed ==
    \A p \in Ranks :
        (gpus >= 1 /\ ret[p].op = "init_dist") =>
            /\ tf[p].memory_growth = AllGpus
            /\ tf[p].visible_devices = {hr[p].local_rank}

\* C5 as amended: whenever init_dist has run with at least one accelerator
\* enumerated, memory growth is on for every enumerated accelerator; and when
\* local_rank is below the number of enumerated accelerators, init_dist ends
\* without error and the visible devices are exactly the accelerator at index
\* local_rank.
C5_VisibleIsLocalRankWhenValid ==
    \A p \in Ranks :
        (gpus >= 1 /\ ret[p].op = "init_dist") =>
            /\ tf[p].memory_growth = AllGpus
            /\ hr[p].local_rank < gpus =>
                   /\ ret[p].exc = NoExc
                   /\ tf[p].visible_devices = {hr[p].local_rank}

C5_Witness ==
    \E p \in Ranks :
        /\ gpus >= 2 /\ ret[p].op = "init_dist"
        /\ hr[p].local_rank < gpus
        /\ hr[p].local_rank # hr[p].rank

\* C6 as claimed: once broadcast_weights has returned on every process, every
\* process holds the model and optimizer variables of the process of rank 0.
C6_Claimed ==
    (\A p \in Ranks : stdout[p] # <<>>) =>
        \A p \in Ranks :
            /\ runner[p].model = runner[0].model
            /\ runner[p].optimizer = runner[0].optimizer

\* C7: broadcast_weights never waits for another process, and a step that
\* prints is a step that appends the two log lines of one process and changes
\* neither any runner's variables nor the state of any collective.
C7_BroadcastIsLocalNoOp ==
    [][ /\ \A p \in Ranks :
             (frame[p] = "idle" /\ steps < MaxSteps) => ENABLED broadcast_weights(p)
        /\ \A p \in Ranks :
             stdout'[p] # stdout[p] =>
                 /\ stdout'[p] = stdout[p] \o <<runner[p].rank, -1>>
                 /\ runner' = runner
                 /\ entered' = entered /\ returned' = returned /\ frame' = frame
                 /\ tf' = tf /\ mock' = mock ]_vars

C7_Witness ==
    \E p \in Ranks :
        /\ ret[p].op = "broadcast_weights" /\ Len(stdout[p]) = 2
        /\ runner[p].model # runner[0].model
        /\ \E q \in Ranks : stdout[q] = <<>>

\* C8: no process has returned from more get_barrier calls than any process of
\* the job has begun, and the result of a barrier is the reduced constant 0.
C8_BarrierSynchronizes ==
    /\ \A p, q \in Ranks : returned[p] <= entered[q]
    /\ \A p \in Ranks : ret[p].op = "get_barrier" => ret[p].value = <<0>>

C8_Witness ==
    /\ Multi
    /\ \E p, q \in Ranks : returned[p] = 1 /\ frame[q] = "get_barrier"

\* C9: a process blocked in a barrier that every process has joined eventually
\* returns from it; and when get_barrier is reached only inside master_only
\* functions in a job of more than one process, no barrier call ever returns.
C9_BarrierTermination ==
    /\ \A p \in 0..(MaxSize - 1) :
          (Blocked(p) /\ oob_allreduce_done(p)) ~> ~Blocked(p)
    /\ [](\A p \in Ranks :
             (barrier_only_in_master /\ Multi) => returned[p] = 0)

C9_Witness ==
    /\ barrier_only_in_master /\ Multi
    /\ \E p, q \in Ranks :
          /\ frame[p] = "wrapper"
          /\ hr[q].rank # 0 /\ mock[q].wrapper_calls >= 1

\* C10: with at least one accelerator enumerated and local_rank not below their
\* number, init_dist ends in IndexError having made no set_visible_devices
\* call, with memory growth on for every enumerated accelerator.
C10_IndexErrorAfterGrowth ==
    \A p \in Ranks :
        (gpus >= 1 /\ hr[p].local_rank >= gpus /\ ret[p].op = "init_dist") =>
            /\ ret[p].exc = "IndexError"
            /\ tf[p].n_set_visible_devices = 0
            /\ tf[p].visible_devices = AllGpus
            /\ tf[p].memory_growth = AllGpus
            /\ tf[p].n_set_memory_growth >= gpus

C10_Witness ==
    \E p \in Ranks :
        gpus >= 1 /\ hr[p].local_rank >= gpus /\ ret[p].op = "init_dist"

====
